---- MODULE Spec2Model ----
(***************************************************************************)
(* Codai: the conversation orchestration engine of src/codai.py together   *)
(* with the file context cache of src/files_context.py.                    *)
(*                                                                         *)
(* Text is a sequence of tokens so that concatenation and strip() are      *)
(* computed.  A tool result dict is a sequence of <<key, value>> pairs in  *)
(* insertion order; the files dict is its key order plus its values.       *)
(* None is the value NONE (texts) or NoTime (timestamps).  In the          *)
(* orchestrator datetime.now() is strictly larger at every read; the       *)
(* FilesContext harness draws every timestamp freely.                      *)
(*                                                                         *)
(* Spec is the orchestrator.  SpecFiles, SpecTools, SpecBridge, SpecReview *)
(* and SpecAssess call FilesContext, execute_tool (src/tools.py),          *)
(* _handle_tool_results, WiseCounsel.review_response (src/wise_counsel.py) *)
(* and InitialReview.assess_simplicity_clarity (src/initial_review.py) on  *)
(* their own, on any input of the modelled sets.  SpecMetrics does the     *)
(* same for CacheMetrics.update.  SpecProgress runs the three tools that   *)
(* write the progress file (src/tools.py) in concurrent processes, one     *)
(* file-system operation per step.  SpecLive is the orchestrator under the *)
(* assumption that every remote call returns and that tool requests come   *)
(* at most MaxRounds times in a row.                                       *)
(***************************************************************************)
EXTENDS Integers, Sequences, FiniteSets, TLC

\* ------------------------------------------------------------------ bounds
MaxTurns == 2          \* user turns in one run
MaxCalls == 3          \* remote drafting calls in one run
MaxOps   == 4          \* calls made in a harness of one function
MaxTime  == 3          \* timestamps the FilesContext harness draws from
MaxProcs == 2          \* processes running progress tools on one project folder
MaxRounds == 6         \* tool round-trips in a row within one user turn

\* --------------------------------------------------------- program constants
max_attempts == 5

NONE == "NONE"
NoTime == 0

VARIABLES
    messages,                  \* Conversation.messages (the durable history)
    files_context,             \* Conversation.files_context
    cache_metrics,             \* Conversation.cache_metrics
    temp_conversation,         \* generate_response: the deep copy used for requests
    pc,                        \* where generate_response stands
    response,                  \* generate_response: response of the last remote call
    attempt,                   \* generate_response: attempt
    approved_response,         \* generate_response: approved_response
    proceed_with_wise_counsel, \* generate_response: proceed_with_wise_counsel
    is_first_pass,             \* generate_response: is_first_pass
    now,                       \* wall clock, last value read
    next_id,                   \* next fresh tool_use id of the remote service
    request,                   \* the request rendered for the last remote call
    fresh,                     \* paths upserted by tool results since the last remote call
    request_fresh,             \* value of fresh when the last request was rendered
    tool_log,                  \* tool results given to _handle_tool_results so far
    executed,                  \* ids of the tool requests executed so far
    review_calls,              \* calls of WiseCounsel.review_response so far
    prefilter_calls,           \* calls of InitialReview.assess_simplicity_clarity so far
    reviewed_tool_drafts,      \* drafts holding a tool request that were handed to a reviewer
    turn_calls,                \* remote drafting calls of the current user turn
    turn_start,                \* Len(messages) when the current user turn began
    turn_files_context,        \* files_context when the current user turn began
    turn_responses,            \* responses of the remote calls of the current user turn
    turn_stamps,               \* update_last_api_call_timestamp calls of the current user turn
    report,                    \* the usage report printed at the end of the current user turn
    outcome,                   \* how the last generate_response ended
    turns, calls,              \* counters for the bounds
    split_result,              \* FilesContext harness: last split_files_for_api_context result
    exec_call,                 \* execute_tool harness: tool name and what the tool does
    exec_result,               \* execute_tool harness: what the call gave
    bridge_call,               \* _handle_tool_results harness: the tool_results handed in
    review_call,               \* review_response harness: what the critic call gives
    review_result,             \* review_response harness: what review_response gave
    assessment_call,           \* assess_simplicity_clarity harness: what the call gives
    assessment_result,         \* assess_simplicity_clarity harness: what it gave
    remove_call,               \* FilesContext harness: the last remove_file_from_context call
    update_calls,              \* CacheMetrics harness: the update calls made, in order
    lock_file,                 \* progress file harness: the lock file exists
    progress_file,             \* progress file harness: content of the progress file
    temp_file,                 \* progress file harness: content of the .tmp file
    report_file,               \* progress file harness: the report file was written
    proc,                      \* progress file harness: the invocation of each process
    ops                        \* harness operation counter

vars == << messages, files_context, cache_metrics, temp_conversation, pc, response,
           attempt, approved_response, proceed_with_wise_counsel, is_first_pass,
           now, next_id, request, fresh, request_fresh, tool_log, executed,
           review_calls, prefilter_calls, reviewed_tool_drafts, turn_calls, turn_start,
           turn_files_context, turn_responses, turn_stamps, report, outcome, turns, calls,
           split_result, exec_call, exec_result, bridge_call, review_call, review_result,
           assessment_call, assessment_result, remove_call, update_calls, lock_file,
           progress_file, temp_file, report_file, proc, ops >>

\* ------------------------------------------------------------ small helpers
Range(s) == { s[i] : i \in 1..Len(s) }

Min(S) == CHOOSE x \in S : \A y \in S : x <= y

RECURSIVE SeqSum(_)
SeqSum(s) == IF s = << >> THEN 0 ELSE Head(s) + SeqSum(Tail(s))

\* ================================================================ FilesContext
\* files is a dict: `paths` is its key order, `files` its values.
EmptyFilesContext ==
    [ paths |-> << >>, files |-> << >>, last_modified |-> << >>,
      modification_source |-> << >>, last_api_call |-> NoTime ]

DictSet(f, k, v) == [ x \in (DOMAIN f) \cup {k} |-> IF x = k THEN v ELSE f[x] ]

DictDel(f, k) == [ x \in (DOMAIN f) \ {k} |-> f[x] ]

update_file_in_context(fc, relative_path, file_content, source, t) ==
    [ fc EXCEPT
        !.paths = IF relative_path \in Range(fc.paths) THEN @ ELSE Append(@, relative_path),
        !.files = DictSet(@, relative_path, file_content),
        !.last_modified = DictSet(@, relative_path, t),
        !.modification_source = DictSet(@, relative_path, source) ]

\* removal that leaves the entry of the path in modification_source
remove_file_from_context_keeps_source(fc, relative_path) ==
    [ fc EXCEPT
        !.paths = SelectSeq(@, LAMBDA p : p # relative_path),
        !.files = DictDel(@, relative_path),
        !.last_modified = DictDel(@, relative_path) ]

\* FilesContext.remove_file_from_context on a tracked path: the three del statements
remove_file_from_context(fc, relative_path) ==
    [ fc EXCEPT
        !.paths = SelectSeq(@, LAMBDA p : p # relative_path),
        !.files = DictDel(@, relative_path),
        !.last_modified = DictDel(@, relative_path),
        !.modification_source = DictDel(@, relative_path) ]

\* a call that records nothing
update_last_api_call_timestamp_skipped(fc, t) == fc

\* FilesContext.update_last_api_call_timestamp: self.last_api_call = datetime.now()
update_last_api_call_timestamp(fc, t) == [ fc EXCEPT !.last_api_call = t ]

\* list.sort(key=...): stable, ascending
RECURSIVE SortInsert(_, _, _)
SortInsert(sorted, x, key) ==
    IF sorted = << >> THEN << x >>
    ELSE IF key[x] < key[Head(sorted)] THEN << x >> \o sorted
    ELSE << Head(sorted) >> \o SortInsert(Tail(sorted), x, key)

RECURSIVE StableSort(_, _)
StableSort(s, key) ==
    IF s = << >> THEN << >>
    ELSE SortInsert(StableSort(SubSeq(s, 1, Len(s) - 1), key), s[Len(s)], key)

\* the comparison of line 92 turned around
IsNewOrModified_before(fc, p) ==
    fc.last_api_call # NoTime /\ fc.last_modified[p] < fc.last_api_call

\* the test of files_context.py line 92
IsNewOrModified(fc, p) ==
    fc.last_api_call # NoTime /\ fc.last_modified[p] > fc.last_api_call

\* lines 92-95 with the else branch taken for every file
split_files_for_api_context_no_else(fc) ==
    LET newp == SelectSeq(fc.paths, LAMBDA p : IsNewOrModified(fc, p))
        tup(s) == [ i \in 1..Len(s) |-> << s[i], fc.files[s[i]] >> ]
    IN  [ existing_files |-> tup(StableSort(fc.paths, fc.last_modified)),
          new_modified_files |-> tup(StableSort(newp, fc.last_modified)) ]

split_files_for_api_context(fc) ==
    LET newp == SelectSeq(fc.paths, LAMBDA p : IsNewOrModified(fc, p))
        oldp == SelectSeq(fc.paths, LAMBDA p : ~IsNewOrModified(fc, p))
        tup(s) == [ i \in 1..Len(s) |-> << s[i], fc.files[s[i]] >> ]
    IN  [ existing_files |-> tup(StableSort(oldp, fc.last_modified)),
          new_modified_files |-> tup(StableSort(newp, fc.last_modified)) ]

\* ================================================================ Conversation
\* A content block of a message.  text is the block's payload as tokens.
TextBlock(t) ==
    [ type |-> "text", text |-> t, id |-> 0, name |-> NONE,
      is_error |-> FALSE, cache_control |-> FALSE ]

ToolUseBlock(id, name) ==
    [ type |-> "tool_use", text |-> << >>, id |-> id, name |-> name,
      is_error |-> FALSE, cache_control |-> FALSE ]

ToolResultBlock(tool_use_id, content, is_error) ==
    [ type |-> "tool_result", text |-> content, id |-> tool_use_id, name |-> NONE,
      is_error |-> is_error, cache_control |-> FALSE ]

\* add_message that writes over the last message of the history
add_message_over_last(msgs, role, content) ==
    IF msgs = << >> THEN << [ role |-> role, content |-> content ] >>
    ELSE [ msgs EXCEPT ![Len(msgs)] = [ role |-> role, content |-> content ] ]

\* Conversation.add_message: self.messages.append(...)
add_message(msgs, role, content) == Append(msgs, [ role |-> role, content |-> content ])

\* list.index(msg): the first position holding an equal message
index(msgs, msg) == Min({ i \in 1..Len(msgs) : msgs[i] = msg })

\* positions (in msgs) of the user-role messages, in order
UserPositions(msgs) ==
    SelectSeq([ i \in 1..Len(msgs) |-> i ], LAMBDA i : msgs[i].role = "user")

\* user_messages[-2:]
LastTwo(s) == IF Len(s) <= 2 THEN s ELSE SubSeq(s, Len(s) - 1, Len(s))

\* [formatted_messages.index(msg) for msg in user_messages[-2:]]
last_two_user_indices(msgs) ==
    LET last == LastTwo(UserPositions(msgs))
    IN  [ k \in 1..Len(last) |-> index(msgs, msgs[last[k]]) ]

\* the loop of lines 380-396 over the copy of the history
get_messages_for_api(msgs) ==
    LET indices == last_two_user_indices(msgs)
        annotated(msg) ==
            IF msg.content # << >> THEN [ msg EXCEPT !.content[1].cache_control = TRUE ]
            ELSE msg
        RECURSIVE loop(_, _)
        loop(formatted_messages, k) ==
            IF k > Len(indices) THEN formatted_messages
            ELSE loop([ formatted_messages EXCEPT
                          ![indices[k]] = annotated(formatted_messages[indices[k]]) ], k + 1)
    IN  loop(msgs, 1)

\* SystemMessage.get_message_for_api: the base prompt followed by the two file lists
get_message_for_api(fc) ==
    LET split == split_files_for_api_context(fc)
    IN  [ existing_files |-> split.existing_files,
          new_modified_files |-> split.new_modified_files,
          cache_control |-> TRUE ]

\* =================================================================== CacheMetrics
EmptyCacheMetrics ==
    [ total_requests |-> 0, total_input_tokens |-> 0, total_output_tokens |-> 0,
      total_cache_read_tokens |-> 0, total_cache_creation_tokens |-> 0, total_time |-> 0,
      current_input_tokens |-> 0, current_output_tokens |-> 0,
      current_cache_read_tokens |-> 0, current_cache_creation_tokens |-> 0,
      current_time |-> 0 ]

\* getattr(usage, name, 0)
getattr(usage, name) == IF name \in DOMAIN usage THEN usage[name] ELSE 0

\* update that replaces the totals instead of adding to them
CacheMetrics_update_overwrite(m, resp, elapsed_time) ==
    [ total_requests |-> m.total_requests + 1,
      total_input_tokens |-> resp.usage.input_tokens,
      total_output_tokens |-> resp.usage.output_tokens,
      total_cache_read_tokens |-> getattr(resp.usage, "cache_read_input_tokens"),
      total_cache_creation_tokens |-> getattr(resp.usage, "cache_creation_input_tokens"),
      total_time |-> elapsed_time,
      current_input_tokens |-> resp.usage.input_tokens,
      current_output_tokens |-> resp.usage.output_tokens,
      current_cache_read_tokens |-> getattr(resp.usage, "cache_read_input_tokens"),
      current_cache_creation_tokens |-> getattr(resp.usage, "cache_creation_input_tokens"),
      current_time |-> elapsed_time ]

\* CacheMetrics.update; times are counted in ticks
CacheMetrics_update(m, resp, elapsed_time) ==
    [ total_requests |-> m.total_requests + 1,
      total_input_tokens |-> m.total_input_tokens + resp.usage.input_tokens,
      total_output_tokens |-> m.total_output_tokens + resp.usage.output_tokens,
      total_cache_read_tokens |->
          m.total_cache_read_tokens + getattr(resp.usage, "cache_read_input_tokens"),
      total_cache_creation_tokens |->
          m.total_cache_creation_tokens + getattr(resp.usage, "cache_creation_input_tokens"),
      total_time |-> m.total_time + elapsed_time,
      current_input_tokens |-> resp.usage.input_tokens,
      current_output_tokens |-> resp.usage.output_tokens,
      current_cache_read_tokens |-> getattr(resp.usage, "cache_read_input_tokens"),
      current_cache_creation_tokens |-> getattr(resp.usage, "cache_creation_input_tokens"),
      current_time |-> elapsed_time ]

\* a / b of the report: the exact fraction, or ZeroDivisionError
Divide(a, b) == IF b = 0 THEN "ZeroDivisionError" ELSE << a, b >>

\* a report computed on metrics that saw no request
generate_report_no_requests(m) ==
    [ called |-> TRUE, raised |-> TRUE, total_requests |-> 0,
      percentage_cached |-> 0, current_percentage_cached |-> 0,
      avg_input_tokens |-> "ZeroDivisionError", avg_output_tokens |-> "ZeroDivisionError",
      avg_response_time |-> "ZeroDivisionError" ]

\* CacheMetrics.generate_report: the two hit rates are guarded, the three averages are not
generate_report(m) ==
    LET total_input_tokens == m.total_input_tokens + m.total_cache_read_tokens
        current_total_tokens == m.current_input_tokens + m.current_cache_read_tokens
        avg_input == Divide(m.total_input_tokens, m.total_requests)
        avg_output == Divide(m.total_output_tokens, m.total_requests)
        avg_time == Divide(m.total_time, m.total_requests)
    IN  [ called |-> TRUE,
          raised |-> "ZeroDivisionError" \in { avg_input, avg_output, avg_time },
          total_requests |-> m.total_requests,
          percentage_cached |->
              IF total_input_tokens > 0
              THEN Divide(m.total_cache_read_tokens * 100, total_input_tokens) ELSE 0,
          current_percentage_cached |->
              IF current_total_tokens > 0
              THEN Divide(m.current_cache_read_tokens * 100, current_total_tokens) ELSE 0,
          avg_input_tokens |-> avg_input,
          avg_output_tokens |-> avg_output,
          avg_response_time |-> avg_time ]

\* ================================================================= progress file
\* code_change_analysis_progress.json of one project folder, written by three tools
\* that run in separate processes.  A progress dict maps step names to their status.
Procs == 1..MaxProcs

\* the action plan has one report and its review step
report_name == "A"

review_step_name == "Review and Update Progress: A"

all_steps == << report_name, review_step_name >>

\* a step name that is not a key of the dict
ABSENT == "ABSENT"

\* {}
EmptyProgress == [ k \in Range(all_steps) |-> ABSENT ]

\* a file that does not exist
MISSING == [ exists |-> FALSE, progress |-> EmptyProgress ]

\* a file holding the JSON of a progress dict
File(progress) == [ exists |-> TRUE, progress |-> progress ]

\* progress[key] = {"status": status}
progress_set(progress, key, status) == [ progress EXCEPT ![key] = status ]

\* {step["name"]: {"status": "Not Started"} for step in all_steps}
NotStarted == [ k \in Range(all_steps) |-> "Not Started" ]

\* next(step for step in all_steps if progress[step]["status"] != "Completed", None);
\* a step missing from the dict raises KeyError
next_step(progress) ==
    LET RECURSIVE scan(_)
        scan(i) ==
            IF i > Len(all_steps) THEN NONE
            ELSE IF progress[all_steps[i]] = ABSENT THEN "KeyError"
            ELSE IF progress[all_steps[i]] # "Completed" THEN all_steps[i]
            ELSE scan(i + 1)
    IN  scan(1)

\* a process that is in no tool invocation
NotInvoked == [ op |-> "none", pc |-> "done", progress |-> EmptyProgress, status |-> NONE,
                acquired |-> FALSE ]

\* ========================================================================= text
Whitespace == { "\n", " " }

RECURSIVE LStrip(_)
LStrip(t) == IF t # << >> /\ Head(t) \in Whitespace THEN LStrip(Tail(t)) ELSE t

RECURSIVE RStrip(_)
RStrip(t) ==
    IF t # << >> /\ t[Len(t)] \in Whitespace THEN RStrip(SubSeq(t, 1, Len(t) - 1)) ELSE t

\* str.strip()
Strip(t) == RStrip(LStrip(t))

\* ================================================================= tool results
\* dict.get(key, default) on a dict kept as a sequence of <<key, value>> pairs
Get(items, key, default) ==
    IF \E i \in 1..Len(items) : items[i][1] = key
    THEN items[Min({ i \in 1..Len(items) : items[i][1] = key })][2]
    ELSE default

\* 'file' in key.lower(), over the key names that occur in the modelled results
ContainsFile(key) ==
    key \in { "file_path", "file_content", "report_file", "filePathAlt" }

\* os.path.relpath(os.path.abspath(p)), over the modelled paths
RelPath(p) == IF p = "./report.md" THEN "report.md" ELSE p

NoResult == [ is_error |-> FALSE, items |-> << >> ]

\* a text block of a response
RText(t) ==
    [ type |-> "text", text |-> t, id |-> 0, name |-> NONE, result |-> NoResult, disk |-> NONE ]

\* a tool_use block of a response, with what execute_tool returns for it (result)
\* and what the file system holds at the path the result names (disk)
RTool(name, result, disk) ==
    [ type |-> "tool_use", text |-> << >>, id |-> 0, name |-> name, result |-> result,
      disk |-> disk ]

\* file_keys and the path choice of _handle_tool_results
file_keys(items) ==
    LET fk == SelectSeq([ i \in 1..Len(items) |-> i ], LAMBDA i : ContainsFile(items[i][1]))
    IN  [ k \in 1..Len(fk) |-> items[fk[k]][1] ]

\* no precedence for file_path: always the first key containing "file"
resolve_file_path_first_key(items) ==
    IF file_keys(items) # << >> THEN Get(items, file_keys(items)[1], NONE) ELSE NONE

resolve_file_path(items) ==
    IF "file_path" \in Range(file_keys(items)) THEN Get(items, "file_path", NONE)
    ELSE IF file_keys(items) # << >> THEN Get(items, file_keys(items)[1], NONE)
    ELSE NONE

\* the content the bridge ends up with: the result's own file_content, else what
\* open().read() gives when the path exists, else None
resolve_file_content(items, disk) ==
    LET file_content == Get(items, "file_content", NONE)
    IN  IF file_content = NONE /\ disk # "MISSING"
        THEN (IF disk = "UNREADABLE" THEN NONE ELSE disk)
        ELSE file_content

Truthy(x) == x # NONE /\ x # ""

\* the flag never read: every result is taken as a success
is_error_ignored(result_content) == FALSE

\* result_content.get("is_error", False)
is_error(result_content) == result_content.is_error

\* One iteration of the loop of _handle_tool_results on state st =
\* [messages, files_context, relative_path, now, raised, fresh, tool_log].
handle_one(st, tr) ==
    LET items == tr.result.items
        failed == is_error(tr.result)
        file_path == resolve_file_path(items)
        file_content == resolve_file_content(items, tr.disk)
        logged == [ st EXCEPT !.tool_log =
                        @ \cup { [ id |-> tr.tool_use_id, is_error |-> failed ] } ]
        say(s, content, err) ==
            [ s EXCEPT !.messages =
                add_message(@, "user", << ToolResultBlock(tr.tool_use_id, content, err) >>) ]
    IN  IF failed
        THEN say(logged, << "error", Get(items, "error", "Unknown error occurred") >>, TRUE)
        ELSE IF Truthy(file_path)
        THEN IF Truthy(file_content)
             THEN LET relative_path == RelPath(file_path)
                      t == st.now + 1
                      upd == [ logged EXCEPT
                                 !.relative_path = relative_path,
                                 !.now = t,
                                 !.fresh = @ \cup { relative_path },
                                 !.files_context =
                                     update_file_in_context(@, relative_path, file_content,
                                                            tr.tool_name, t) ]
                  IN  say(upd, << "cached", relative_path >>, FALSE)
             ELSE IF st.relative_path = NONE
                  THEN [ logged EXCEPT !.raised = TRUE ]   \* UnboundLocalError: relative_path
                  ELSE say(logged, << "unavailable", st.relative_path >>, FALSE)
        ELSE say(logged, << "payload" >>, FALSE)

RECURSIVE handle_loop(_, _)
handle_loop(st, results) ==
    IF results = << >> \/ st.raised THEN st
    ELSE handle_loop(handle_one(st, Head(results)), Tail(results))

\* the results dropped: nothing is folded into the conversation
_handle_tool_results_dropped(results, msgs, fc, t, fr, log) ==
    [ messages |-> msgs, files_context |-> fc, relative_path |-> NONE,
      now |-> t, raised |-> FALSE, fresh |-> fr, tool_log |-> log ]

_handle_tool_results(results, msgs, fc, t, fr, log) ==
    handle_loop([ messages |-> msgs, files_context |-> fc, relative_path |-> NONE,
                  now |-> t, raised |-> FALSE, fresh |-> fr, tool_log |-> log ], results)

\* ======================================================= process_claude_response
\* the assistant message content built from the response
assistant_message_content(resp) ==
    [ i \in 1..Len(resp.content) |->
        IF resp.content[i].type = "text" THEN TextBlock(resp.content[i].text)
        ELSE ToolUseBlock(resp.content[i].id, resp.content[i].name) ]

\* tool_results: one entry per tool_use block, in order
tool_results(resp) ==
    LET tu == SelectSeq(resp.content, LAMBDA b : b.type = "tool_use")
    IN  [ i \in 1..Len(tu) |->
            [ tool_use_id |-> tu[i].id, tool_name |-> tu[i].name,
              result |-> tu[i].result, disk |-> tu[i].disk ] ]

RECURSIVE final_response(_)
final_response(content) ==
    IF content = << >> THEN << >>
    ELSE IF Head(content).type = "text"
         THEN Head(content).text \o << "\n" >> \o final_response(Tail(content))
         ELSE final_response(Tail(content))

\* ==================================================== handle_max_tokens_exceeded
RECURSIVE partial_content(_)
partial_content(content) ==
    IF content = << >> THEN << >>
    ELSE IF Head(content).type = "text"
         THEN Head(content).text \o partial_content(Tail(content))
         ELSE partial_content(Tail(content))

\* the note alone, the text produced so far left out
handle_max_tokens_exceeded_no_partial(resp) ==
    << "TRUNCATED:", "FENCE" >> \o << "FENCE", "ADVICE" >>

handle_max_tokens_exceeded(resp) ==
    << "TRUNCATED:", "FENCE" >> \o partial_content(resp.content) \o << "FENCE", "ADVICE" >>

\* ============================================================ the environment
UserTexts == { "hi", "yes" }

Texts == { << >>, << "hello" >> }

\* what the file system may hold at a path: absent, unreadable, or content
DiskStates == { "MISSING", "UNREADABLE", "c2" }

T_error == RTool("read_file",
                 [ is_error |-> TRUE, items |-> << << "error", "File not found" >> >> ], "MISSING")

T_list == RTool("list_files",
                [ is_error |-> FALSE, items |-> << << "result", "listing" >> >> ], "MISSING")

T_read == RTool("read_file",
                [ is_error |-> FALSE,
                  items |-> << << "file_path", "a.py" >>, << "file_content", "c1" >> >> ], "c1")

T_read_empty == RTool("read_file",
                      [ is_error |-> FALSE,
                        items |-> << << "file_path", "a.py" >>, << "file_content", "" >> >> ], "")

T_report(disk) == RTool("save_code_change_analysis_report",
                        [ is_error |-> FALSE,
                          items |-> << << "message", "saved" >>,
                                       << "report_file", "./report.md" >> >> ], disk)

ToolUses == { T_error, T_list, T_read, T_read_empty } \cup { T_report(d) : d \in DiskStates }

\* the content of a response, before the service numbers its tool_use blocks
ResponseContents ==
    { << >> } \cup { << RText(t) >> : t \in Texts } \cup { << u >> : u \in ToolUses }
      \cup { << RText(<< "hello" >>), T_list >>,
             << T_read, T_read_empty >>, << T_read_empty, T_read >> }

TruncatedContents == { << >>, << RText(<< "hello" >>), T_read >> }

\* the service gives every tool_use block a fresh id
Numbered(content, first) ==
    [ i \in 1..Len(content) |->
        IF content[i].type = "tool_use"
        THEN [ content[i] EXCEPT !.id =
                 first + Cardinality({ j \in 1..(i - 1) : content[j].type = "tool_use" }) ]
        ELSE content[i] ]

ToolUseCount(content) == Cardinality({ i \in 1..Len(content) : content[i].type = "tool_use" })

NoResponse == [ stop_reason |-> NONE, content |-> << >>,
                usage |-> [ input_tokens |-> 0, output_tokens |-> 0 ] ]

Responses(first) ==
    { [ stop_reason |-> IF ToolUseCount(c) > 0 THEN "tool_use" ELSE "end_turn",
        content |-> Numbered(c, first),
        usage |-> [ input_tokens |-> 2, output_tokens |-> 1 ] ] : c \in ResponseContents }
    \cup
    { [ stop_reason |-> "max_tokens", content |-> Numbered(c, first),
        usage |-> [ input_tokens |-> 2, output_tokens |-> 1 ] ] : c \in TruncatedContents }

\* a harness variable before the first call of its function
NoCall == [ called |-> FALSE ]

NoRequest == [ system |-> get_message_for_api(EmptyFilesContext), messages |-> << >> ]

\* ========================================================================= Init
Init ==
    /\ messages = << >>
    /\ files_context = EmptyFilesContext
    /\ cache_metrics = EmptyCacheMetrics
    /\ temp_conversation = [ messages |-> << >>, files_context |-> EmptyFilesContext ]
    /\ pc = "idle"
    /\ response = NoResponse
    /\ attempt = 0
    /\ approved_response = NoResponse
    /\ proceed_with_wise_counsel = FALSE
    /\ is_first_pass = TRUE
    /\ now = 0
    /\ next_id = 1
    /\ request = NoRequest
    /\ fresh = {}
    /\ request_fresh = {}
    /\ tool_log = {}
    /\ executed = {}
    /\ review_calls = 0
    /\ prefilter_calls = 0
    /\ reviewed_tool_drafts = 0
    /\ turn_calls = 0
    /\ turn_start = 0
    /\ turn_files_context = EmptyFilesContext
    /\ turn_responses = << >>
    /\ turn_stamps = 0
    /\ report = NoCall
    /\ outcome = NONE
    /\ turns = 0
    /\ calls = 0
    /\ split_result = [ of |-> EmptyFilesContext,
                        lists |-> split_files_for_api_context(EmptyFilesContext) ]
    /\ exec_call = NoCall
    /\ exec_result = NoCall
    /\ bridge_call = NoCall
    /\ review_call = NoCall
    /\ review_result = NoCall
    /\ assessment_call = NoCall
    /\ assessment_result = NoCall
    /\ remove_call = NoCall
    /\ update_calls = << >>
    /\ lock_file = FALSE
    /\ progress_file = MISSING
    /\ temp_file = MISSING
    /\ report_file = FALSE
    /\ proc = [ p \in Procs |-> NotInvoked ]
    /\ ops = 0

unit_vars == << exec_call, exec_result, bridge_call, review_call, review_result,
               assessment_call, assessment_result >>

progress_vars == << lock_file, progress_file, temp_file, report_file, proc >>

harness_vars == << split_result, ops, unit_vars, remove_call, update_calls, progress_vars >>

review_counters == << review_calls, prefilter_calls, reviewed_tool_drafts >>

\* ============================================================ generate_response
\* a loop head that carries the attempt counter over from the round before
BeginOuterLoop_keeps_attempt(msgs, fc) ==
    /\ attempt' = attempt + 1
    /\ approved_response' = NoResponse
    /\ proceed_with_wise_counsel' = FALSE
    /\ is_first_pass' = TRUE
    /\ temp_conversation' = [ messages |-> msgs, files_context |-> fc ]
    /\ pc' = "call"

\* lines 984-993: the head of the outer `while True` loop
BeginOuterLoop(msgs, fc) ==
    /\ attempt' = 0
    /\ approved_response' = NoResponse
    /\ proceed_with_wise_counsel' = FALSE
    /\ is_first_pass' = TRUE
    /\ temp_conversation' = [ messages |-> msgs, files_context |-> fc ]
    /\ pc' = "call"

\* the failure recorded with no block at all
FailedMessage_no_text == << >>

\* the except clause of generate_response (lines 1121-1127) followed by the
\* except clause of process_user_input (lines 1443-1446)
FailedMessage == << TextBlock(<< "Failed to generate response" >>) >>

\* process_user_input for a regular message: append it, enter generate_response
process_user_input(user_input) ==
    /\ pc = "idle"
    /\ turns < MaxTurns
    /\ turns' = turns + 1
    /\ turn_calls' = 0
    /\ turn_start' = Len(messages)
    /\ turn_files_context' = files_context
    /\ turn_responses' = << >>
    /\ turn_stamps' = 0
    /\ report' = NoCall
    /\ outcome' = NONE
    /\ messages' = add_message(messages, "user", << TextBlock(<< user_input >>) >>)
    /\ BeginOuterLoop(messages', files_context)
    /\ UNCHANGED << files_context, cache_metrics, response, now, next_id, request, fresh,
                    request_fresh, tool_log, executed, review_counters,
                    calls, harness_vars >>

\* _get_claude_response returns: the request is rendered from the working copy
claude_returns(resp) ==
    /\ pc = "call"
    /\ calls' = calls + 1
    /\ turn_calls' = turn_calls + 1
    /\ request' = [ system |-> get_message_for_api(temp_conversation.files_context),
                    messages |-> get_messages_for_api(temp_conversation.messages) ]
    /\ request_fresh' = fresh
    /\ fresh' = {}
    /\ response' = resp
    /\ turn_responses' = Append(turn_responses, resp)
    /\ next_id' = next_id + ToolUseCount(resp.content)
    /\ pc' = "response"
    /\ UNCHANGED << messages, files_context, cache_metrics, temp_conversation, attempt,
                    approved_response, proceed_with_wise_counsel, is_first_pass, now,
                    tool_log, executed, review_counters, turn_start, turn_files_context,
                    outcome,
                    turns, turn_stamps, report,
                    harness_vars >>

\* the drafting call of line 998, within the calls of one run
get_claude_response(resp) == calls < MaxCalls /\ claude_returns(resp)

\* _get_claude_response raises: lines 1121-1127, then process_user_input's except
claude_call_raises ==
    /\ pc = "call"
    /\ calls < MaxCalls
    /\ calls' = calls + 1
    /\ turn_calls' = turn_calls + 1
    /\ request' = [ system |-> get_message_for_api(temp_conversation.files_context),
                    messages |-> get_messages_for_api(temp_conversation.messages) ]
    /\ request_fresh' = fresh
    /\ fresh' = {}
    /\ messages' = add_message(messages, "assistant", FailedMessage)
    /\ outcome' = "error"
    /\ pc' = "idle"
    /\ UNCHANGED << files_context, cache_metrics, temp_conversation, response, attempt,
                    approved_response, proceed_with_wise_counsel, is_first_pass, now, next_id,
                    tool_log, executed, review_counters, turn_start, turn_files_context,
                    turn_responses, turns, turn_stamps, report,
                    harness_vars >>

\* lines 1002-1012: the response stopped at the length limit
max_tokens_stop ==
    /\ pc = "response"
    /\ response.stop_reason = "max_tokens"
    /\ messages' = add_message(messages, "assistant",
                               << TextBlock(handle_max_tokens_exceeded(response)) >>)
    /\ outcome' = "truncated"
    /\ pc' = "idle"
    /\ UNCHANGED << files_context, cache_metrics, temp_conversation, response, attempt,
                    approved_response, proceed_with_wise_counsel, is_first_pass, now, next_id,
                    request, fresh, request_fresh, tool_log, executed, review_counters,
                    turn_calls, turn_start, turn_files_context, turn_responses,
                    turns, calls, turn_stamps, report,
                    harness_vars >>

\* lines 1019, 1036-1041: the last user message of the working copy is a tool_result
is_tool_result(msgs) ==
    /\ UserPositions(msgs) # << >>
    /\ LET last_user_message == msgs[UserPositions(msgs)[Len(UserPositions(msgs))]]
       IN  \E i \in 1..Len(last_user_message.content) :
               last_user_message.content[i].type = "tool_result"

\* lines 1071-1088: the feedback goes to the last message of the working copy
append_feedback(msgs) ==
    IF msgs # << >> /\ msgs[Len(msgs)].role = "user"
    THEN [ msgs EXCEPT ![Len(msgs)].content = Append(@, TextBlock(<< "FEEDBACK" >>)) ]
    ELSE msgs

\* lines 1014-1100: the rest of one pass of the inner loop, its exit test, and
\* the abandonment after it.  approved is the verdict WiseCounsel would return.
review_step(approved) ==
    /\ pc = "response"
    /\ response.stop_reason # "max_tokens"
    /\ LET skip_all == is_first_pass /\ is_tool_result(temp_conversation.messages)
           full == ~skip_all /\ proceed_with_wise_counsel
           approved_now == skip_all \/ ~full \/ approved
           attempt_now == IF full THEN attempt + 1 ELSE attempt
       IN  /\ is_first_pass' = (is_first_pass /\ skip_all)
           /\ review_calls' = IF full THEN review_calls + 1 ELSE review_calls
           /\ reviewed_tool_drafts' = IF full /\ ToolUseCount(response.content) > 0
                                      THEN reviewed_tool_drafts + 1 ELSE reviewed_tool_drafts
           /\ attempt' = attempt_now
           /\ approved_response' = IF approved_now THEN response ELSE approved_response
           /\ temp_conversation' =
                IF full /\ ~approved
                THEN [ temp_conversation EXCEPT !.messages = append_feedback(@) ]
                ELSE temp_conversation
           /\ IF approved_now THEN pc' = "approved" /\ outcome' = outcome
              ELSE IF attempt_now < max_attempts THEN pc' = "call" /\ outcome' = outcome
              ELSE pc' = "idle" /\ outcome' = "abandoned"
    /\ UNCHANGED << messages, files_context, cache_metrics, response,
                    proceed_with_wise_counsel, now, next_id, request, fresh, request_fresh,
                    tool_log, executed, prefilter_calls, turn_calls, turn_start,
                    turn_files_context, turn_responses,
                    turns, calls, turn_stamps, report,
                    harness_vars >>

\* lines 1102-1127: timestamp, metrics, process_claude_response, and what follows
process_approved ==
    /\ pc = "approved"
    /\ LET t1 == now + 1
           fc1 == update_last_api_call_timestamp(files_context, t1)
           msgs1 == add_message(messages, "assistant",
                                assistant_message_content(approved_response))
           results == tool_results(approved_response)
           final == Strip(final_response(approved_response.content))
           st == _handle_tool_results(results, msgs1, fc1, t1, fresh, tool_log)
       IN  /\ cache_metrics' = CacheMetrics_update(cache_metrics, approved_response, t1 - now)
           /\ IF results # << >>
              THEN /\ executed' = executed \cup { results[i].tool_use_id : i \in 1..Len(results) }
                   /\ files_context' = st.files_context
                   /\ now' = st.now
                   /\ fresh' = st.fresh
                   /\ tool_log' = st.tool_log
                   /\ report' = report
                   /\ IF st.raised
                      THEN /\ messages' = add_message(st.messages, "assistant", FailedMessage)
                           /\ outcome' = "error"
                           /\ pc' = "idle"
                           /\ UNCHANGED << temp_conversation, attempt, approved_response,
                                           proceed_with_wise_counsel, is_first_pass >>
                      ELSE /\ messages' = st.messages
                           /\ outcome' = outcome
                           /\ BeginOuterLoop(messages', files_context')
              ELSE /\ messages' = msgs1
                   /\ files_context' = fc1
                   /\ now' = t1
                   /\ outcome' = IF final # << >> THEN "final" ELSE "empty"
                   /\ report' = generate_report(cache_metrics')
                   /\ pc' = "idle"
                   /\ UNCHANGED << temp_conversation, attempt, approved_response,
                                   proceed_with_wise_counsel, is_first_pass, fresh,
                                   tool_log, executed >>
    /\ turn_stamps' = turn_stamps + 1
    /\ UNCHANGED << response, next_id, request, request_fresh, review_counters,
                    turn_calls, turn_start, turn_files_context, turn_responses,
                    turns, calls, harness_vars >>

Next ==
    \/ \E user_input \in UserTexts : process_user_input(user_input)
    \/ \E resp \in Responses(next_id) : get_claude_response(resp)
    \/ claude_call_raises
    \/ max_tokens_stop
    \/ \E approved \in BOOLEAN : review_step(approved)
    \/ process_approved

Spec == Init /\ [][Next]_vars

\* ============================================================ a turn that is answered
\* The orchestrator when every remote call returns and the model asks for tools at most
\* MaxRounds times in a row: after that many round-trips of a turn the next response
\* holds no tool request.  The steps of a turn are those of the one thread that runs
\* generate_response, which goes on whenever it can; the user may or may not type.
\* a final text, a tool request, and a truncated response
LiveResponses(first) ==
    { r \in Responses(first) :
        \/ r.content \in { << RText(<< "hello" >>) >>, Numbered(<< T_list >>, first) }
        \/ r.stop_reason = "max_tokens" /\ r.content = << >> }

live_call(resp) ==
    /\ turn_calls < MaxRounds \/ ToolUseCount(resp.content) = 0
    /\ claude_returns(resp)

TurnStep ==
    \/ \E resp \in LiveResponses(next_id) : live_call(resp)
    \/ max_tokens_stop
    \/ \E approved \in BOOLEAN : review_step(approved)
    \/ process_approved

NextLive == process_user_input("hi") \/ TurnStep

SpecLive == Init /\ [][NextLive]_vars /\ WF_vars(TurnStep)

\* ===================================================== FilesContext on its own
\* The public methods of FilesContext, called in any order with any arguments
\* and any reading of the clock.
Paths == { "a.py", "report.md" }
Contents == { "c1", "c2" }
Times == 1..MaxTime

orchestrator_vars ==
    << messages, cache_metrics, temp_conversation, pc, response, attempt, approved_response,
       proceed_with_wise_counsel, is_first_pass, next_id, request, fresh, request_fresh,
       tool_log, executed, review_calls, prefilter_calls, reviewed_tool_drafts, turn_calls,
       turn_start, turn_files_context, turn_responses, turn_stamps, report, outcome,
       turns, calls >>

fc_update_file_in_context(relative_path, file_content, t) ==
    /\ ops < MaxOps
    /\ ops' = ops + 1
    /\ now' = t
    /\ files_context' = update_file_in_context(files_context, relative_path, file_content,
                                               "read_file", t)
    /\ UNCHANGED << split_result, unit_vars, remove_call, update_calls, progress_vars,
                    orchestrator_vars >>

\* on an untracked path the method raises KeyError before changing anything
fc_remove_file_from_context(relative_path) ==
    /\ ops < MaxOps
    /\ ops' = ops + 1
    /\ files_context' = IF relative_path \in Range(files_context.paths)
                        THEN remove_file_from_context(files_context, relative_path)
                        ELSE files_context
    /\ remove_call' = [ called |-> TRUE, op |-> ops', relative_path |-> relative_path,
                        raised |-> IF relative_path \in Range(files_context.paths)
                                   THEN NONE ELSE "KeyError" ]
    /\ UNCHANGED << now, split_result, unit_vars, update_calls, progress_vars, orchestrator_vars >>

fc_update_last_api_call_timestamp(t) ==
    /\ ops < MaxOps
    /\ ops' = ops + 1
    /\ now' = t
    /\ files_context' = update_last_api_call_timestamp(files_context, t)
    /\ UNCHANGED << split_result, unit_vars, remove_call, update_calls, progress_vars,
                    orchestrator_vars >>

fc_split_files_for_api_context ==
    /\ ops < MaxOps
    /\ ops' = ops + 1
    /\ split_result' = [ of |-> files_context,
                         lists |-> split_files_for_api_context(files_context) ]
    /\ UNCHANGED << now, files_context, unit_vars, remove_call, update_calls, progress_vars,
                    orchestrator_vars >>

NextFiles ==
    \/ \E p \in Paths, c \in Contents, t \in Times : fc_update_file_in_context(p, c, t)
    \/ \E p \in Paths : fc_remove_file_from_context(p)
    \/ \E t \in Times : fc_update_last_api_call_timestamp(t)
    \/ fc_split_files_for_api_context

SpecFiles == Init /\ [][NextFiles]_vars

\* ======================================================= execute_tool on its own
\* the names execute_tool dispatches on
ToolNames ==
    { "list_files", "read_file", "read_files_in_folder", "create_file", "create_folder",
      "project_structure", "project_study", "code_change_analysis_action_plan",
      "code_change_analysis_planner", "generate_code_change_analysis_report",
      "save_code_change_analysis_report", "review_and_update_progress",
      "intelligent_edit", "code_edit_tool", "get_current_datetime" }

\* a name the model may ask for that execute_tool does not know
UnknownToolNames == { "delete_file" }

\* what the function of a tool does when called: it returns a dict or it raises
\* an Exception whose str() is message
Returns(result) == [ raises |-> FALSE, result |-> result, message |-> NONE ]
Raises(message) == [ raises |-> TRUE, result |-> NoResult, message |-> message ]

ToolBehaviours ==
    { Returns(r) : r \in { T_list.result, T_read.result, T_error.result } }
      \cup { Raises(m) : m \in { "Missing required input parameters",
                                 "Unable to acquire lock for progress file" } }

ErrorResult(error_msg) ==
    [ is_error |-> TRUE, items |-> << << "error", error_msg >> >> ]

\* execute_tool without its except clause: what the tool raises leaves the function
execute_tool_no_except(tool_name, tool) ==
    IF tool_name \in ToolNames
    THEN [ called |-> TRUE, raised |-> tool.raises, result |-> tool.result ]
    ELSE [ called |-> TRUE, raised |-> FALSE,
           result |-> ErrorResult(<< "Unknown tool:", tool_name >>) ]

\* execute_tool(tool_name, tool_input), tool being what the dispatched function
\* does with tool_input; raised tells whether an exception leaves execute_tool
execute_tool(tool_name, tool) ==
    IF tool_name \in ToolNames
    THEN IF tool.raises
         THEN [ called |-> TRUE, raised |-> FALSE,
                result |-> ErrorResult(<< "An error occurred while executing tool",
                                          tool_name, tool.message >>) ]
         ELSE [ called |-> TRUE, raised |-> FALSE, result |-> tool.result ]
    ELSE [ called |-> TRUE, raised |-> FALSE,
           result |-> ErrorResult(<< "Unknown tool:", tool_name >>) ]

call_execute_tool(tool_name, tool) ==
    /\ ops < MaxOps
    /\ ops' = ops + 1
    /\ exec_call' = [ called |-> TRUE, tool_name |-> tool_name, tool |-> tool ]
    /\ exec_result' = execute_tool(tool_name, tool)
    /\ UNCHANGED << now, files_context, split_result, bridge_call, review_call,
                    review_result, assessment_call, assessment_result, remove_call,
                    update_calls, progress_vars, orchestrator_vars >>

NextTools ==
    \E tool_name \in ToolNames \cup UnknownToolNames, tool \in ToolBehaviours :
        call_execute_tool(tool_name, tool)

SpecTools == Init /\ [][NextTools]_vars

\* ================================================ _handle_tool_results on its own
\* _handle_tool_results called on any list of tool results: results of the shapes
\* the tools return, and dicts with the same keys in another order or with an
\* error flag
B_path_first == RTool("read_file",
                      [ is_error |-> FALSE,
                        items |-> << << "file_path", "a.py" >>, << "filePathAlt", "b.py" >>,
                                     << "file_content", "c1" >> >> ], "c1")

B_alt_first == RTool("read_file",
                     [ is_error |-> FALSE,
                       items |-> << << "filePathAlt", "b.py" >>, << "file_path", "a.py" >>,
                                    << "file_content", "c1" >> >> ], "c1")

B_alt_only == RTool("save_code_change_analysis_report",
                    [ is_error |-> FALSE,
                      items |-> << << "message", "saved" >>, << "filePathAlt", "b.py" >>,
                                   << "report_file", "./report.md" >> >> ], "c2")

B_report_first == RTool("save_code_change_analysis_report",
                        [ is_error |-> FALSE,
                          items |-> << << "report_file", "./report.md" >>,
                                       << "filePathAlt", "b.py" >> >> ], "c2")

B_content_first == RTool("read_file",
                         [ is_error |-> FALSE,
                           items |-> << << "file_content", "c1" >>,
                                        << "filePathAlt", "b.py" >> >> ], "MISSING")

B_error_file == RTool("read_file",
                      [ is_error |-> TRUE,
                        items |-> << << "error", "File not found" >>,
                                     << "file_path", "a.py" >>,
                                     << "file_content", "c1" >> >> ], "c1")

B_error_no_text == RTool("read_file",
                         [ is_error |-> TRUE, items |-> << << "file_path", "b.py" >> >> ], "c2")

BridgeContents ==
    { << u >> : u \in { B_path_first, B_alt_first, B_alt_only, B_report_first,
                        B_content_first, B_error_file, B_error_no_text, T_error, T_list,
                        T_read_empty } }
      \cup { << B_error_file, B_alt_first >>, << T_read, B_error_no_text >>,
             << B_error_no_text, T_read_empty >> }

\* an exception raised inside _handle_tool_results leaves it with what was done
\* before (raised)
call_handle_tool_results(content) ==
    /\ ops < MaxOps
    /\ ops' = ops + 1
    /\ LET results == tool_results([ content |-> Numbered(content, next_id) ])
           st == _handle_tool_results(results, messages, files_context, now, fresh, tool_log)
       IN  /\ bridge_call' = [ called |-> TRUE, results |-> results, raised |-> st.raised ]
           /\ messages' = st.messages
           /\ files_context' = st.files_context
           /\ now' = st.now
           /\ fresh' = st.fresh
           /\ tool_log' = st.tool_log
    /\ next_id' = next_id + Len(content)
    /\ UNCHANGED << cache_metrics, temp_conversation, pc, response, attempt,
                    approved_response, proceed_with_wise_counsel, is_first_pass, request,
                    request_fresh, executed, review_counters, turn_calls, turn_start,
                    turn_files_context, turn_responses, turn_stamps, report, outcome,
                    turns, calls, remove_call, update_calls, progress_vars,
                    split_result, exec_call, exec_result, review_call, review_result,
                    assessment_call, assessment_result >>

NextBridge == \E content \in BridgeContents : call_handle_tool_results(content)

SpecBridge == Init /\ [][NextBridge]_vars

\* ========================================== WiseCounsel.review_response on its own
\* The text of a reply is a sequence of tokens: a piece of text (s) or a run of
\* decimal digits (d).  No two digit tokens stand next to each other.
Tok(s) == [ s |-> s, d |-> << >> ]
Num(d) == [ s |-> "", d |-> d ]

\* int() of a run of digits
RECURSIVE int(_)
int(d) == IF d = << >> THEN 0 ELSE 10 * int(SubSeq(d, 1, Len(d) - 1)) + d[Len(d)]

\* str.lower() and str.upper() on the pieces of text that occur
Lower(s) ==
    CASE s = "<APPROVAL_STATUS>" -> "<approval_status>"
      [] s = "</APPROVAL_STATUS>" -> "</approval_status>"
      [] s = "</FINAL_VERDICT>" -> "</final_verdict>"
      [] s = "APPROVED" -> "approved"
      [] s = "Approved" -> "approved"
      [] s = "NOT APPROVED" -> "not approved"
      [] OTHER -> s

Upper(s) ==
    CASE s = "<approval_status>" -> "<APPROVAL_STATUS>"
      [] s = "</approval_status>" -> "</APPROVAL_STATUS>"
      [] s = "</final_verdict>" -> "</FINAL_VERDICT>"
      [] s = "approved" -> "APPROVED"
      [] s = "Approved" -> "APPROVED"
      [] s = "not approved" -> "NOT APPROVED"
      [] OTHER -> s

IsSpace(tok) == tok.s \in Whitespace

RECURSIVE lstrip(_)
lstrip(t) == IF t # << >> /\ IsSpace(Head(t)) THEN lstrip(Tail(t)) ELSE t

RECURSIVE rstrip(_)
rstrip(t) ==
    IF t # << >> /\ IsSpace(t[Len(t)]) THEN rstrip(SubSeq(t, 1, Len(t) - 1)) ELSE t

\* str.strip() on a token text
strip(t) == rstrip(lstrip(t))

\* positions after `from` whose token is the tag, case ignored
TagsAfter(text, tag, from) ==
    { j \in (from + 1)..Len(text) : Lower(text[j].s) = tag }

\* re.search(r'<approval_status>(.*?)</approval_status>', text, IGNORECASE | DOTALL)
approval_status_match(text) ==
    LET starts == { i \in TagsAfter(text, "<approval_status>", 0) :
                        TagsAfter(text, "</approval_status>", i) # {} }
    IN  IF starts = {} THEN [ matched |-> FALSE, group |-> << >> ]
        ELSE LET i == Min(starts)
                 j == Min(TagsAfter(text, "</approval_status>", i))
             IN  [ matched |-> TRUE, group |-> SubSeq(text, i + 1, j - 1) ]

\* re.search(r'<approval_status>.*?</approval_status>\s*(.*?)\s*</final_verdict>', ...)
feedback_match(text) ==
    LET ends(i) == { f \in TagsAfter(text, "</final_verdict>", i) :
                        \E j \in TagsAfter(text, "</approval_status>", i) : j < f }
        starts == { i \in TagsAfter(text, "<approval_status>", 0) : ends(i) # {} }
    IN  IF starts = {} THEN [ matched |-> FALSE, group |-> << >> ]
        ELSE LET i == Min(starts)
                 j == Min(TagsAfter(text, "</approval_status>", i))
                 f == Min(TagsAfter(text, "</final_verdict>", j))
             IN  [ matched |-> TRUE, group |-> strip(SubSeq(text, j + 1, f - 1)) ]

\* re.search(r'<total_score>total score:\s*(\d+)</total_score>', text): the
\* positions of the digits of the matches
total_score_digits(text) ==
    { n \in 3..(Len(text) - 1) :
        /\ text[n].d # << >>
        /\ text[n + 1].s = "</total_score>"
        /\ \E i \in 1..(n - 2) :
              /\ text[i].s = "<total_score>"
              /\ text[i + 1].s = "total score:"
              /\ \A k \in (i + 2)..(n - 1) : IsSpace(text[k]) }

parse_total_score(text) ==
    IF total_score_digits(text) = {} THEN 0 ELSE int(text[Min(total_score_digits(text))].d)

\* the verdict taken from the reported score
parse_approved_by_score(text) == parse_total_score(text) >= 90

\* lines 179-186: the verdict
parse_approved(text) ==
    LET m == approval_status_match(text)
        approval_status == strip(m.group)
    IN  /\ m.matched
        /\ [ k \in 1..Len(approval_status) |-> Upper(approval_status[k].s) ]
              = << "APPROVED" >>

\* what the critic call gives: it raises, or it returns a message with no
\* content block, with a first block that has no text, or with a text
CriticRaises == [ called |-> TRUE, kind |-> "raises", text |-> << >> ]
CriticEmpty == [ called |-> TRUE, kind |-> "empty", text |-> << >> ]
CriticNoText == [ called |-> TRUE, kind |-> "no_text", text |-> << >> ]
CriticText(text) == [ called |-> TRUE, kind |-> "text", text |-> text ]

\* review_response, from the critic call on: lines 171-225
review_response(reply) ==
    IF reply.kind \in { "raises", "no_text" }
    THEN [ called |-> TRUE, raised |-> FALSE, approved |-> FALSE,
           feedback |-> << Tok("An error occurred during the review process.") >>,
           total_score |-> 0 ]
    ELSE LET review_text == IF reply.kind = "empty" THEN << >> ELSE reply.text
         IN  [ called |-> TRUE, raised |-> FALSE,
               approved |-> parse_approved(review_text),
               feedback |-> feedback_match(review_text).group,
               total_score |-> parse_total_score(review_text) ]

ScoreParts ==
    { << >> } \cup
    { << Tok("<total_score>"), Tok("total score:"), Tok(" "), Num(d),
         Tok("</total_score>") >> : d \in { << 9, 5 >>, << 8, 5 >> } }

StatusContents ==
    { << Tok("APPROVED") >>, << Tok("approved") >>,
      << Tok("\n"), Tok("Approved"), Tok(" ") >>, << Tok("NOT APPROVED") >>, << >>,
      << Tok("APPROVED"), Tok("!") >> }

StatusParts ==
    { << Tok(tag[1]) >> \o c \o << Tok(tag[2]) >> :
        tag \in { << "<approval_status>", "</approval_status>" >>,
                  << "<APPROVAL_STATUS>", "</APPROVAL_STATUS>" >> },
        c \in StatusContents }
      \cup { << >>, << Tok("APPROVED") >>, << Tok("<approval_status>"), Tok("APPROVED") >>,
             << Tok("<approval_status>"), Tok("NOT APPROVED"), Tok("</approval_status>"),
                Tok("<approval_status>"), Tok("APPROVED"), Tok("</approval_status>") >> }

VerdictEnds == { << >>, << Tok("too short"), Tok("\n"), Tok("</final_verdict>") >> }

ReviewTexts ==
    { << Tok("<final_verdict>") >> \o score \o status \o end :
        score \in ScoreParts, status \in StatusParts, end \in VerdictEnds }

CriticReplies ==
    { CriticRaises, CriticEmpty, CriticNoText } \cup { CriticText(t) : t \in ReviewTexts }

call_review_response(reply) ==
    /\ ops < MaxOps
    /\ ops' = ops + 1
    /\ review_call' = reply
    /\ review_result' = review_response(reply)
    /\ UNCHANGED << now, files_context, split_result, exec_call, exec_result, bridge_call,
                    assessment_call, assessment_result, remove_call, update_calls, progress_vars,
                    orchestrator_vars >>

NextReview == \E reply \in CriticReplies : call_review_response(reply)

SpecReview == Init /\ [][NextReview]_vars

\* ============================ InitialReview.assess_simplicity_clarity on its own
\* re.search(open + r'(\d+)' + close, text): the positions of the digits of the
\* matches
score_digits(text, open, close) ==
    { n \in 2..(Len(text) - 1) :
        text[n].d # << >> /\ text[n - 1].s = open /\ text[n + 1].s = close }

\* int(match.group(1)) if match else 0
parse_score(text, open, close) ==
    IF score_digits(text, open, close) = {} THEN 0
    ELSE int(text[Min(score_digits(text, open, close))].d)

\* re.search(open + r'(.*?)' + close, text, DOTALL): group(1).strip(), else ""
parse_explanation(text, open, close) ==
    LET starts == { i \in 1..Len(text) :
                        text[i].s = open /\ \E j \in (i + 1)..Len(text) : text[j].s = close }
    IN  IF starts = {} THEN << >>
        ELSE LET i == Min(starts)
                 j == Min({ j \in (i + 1)..Len(text) : text[j].s = close })
             IN  strip(SubSeq(text, i + 1, j - 1))

_parse_assessment(assessment_text) ==
    [ user_score |-> parse_score(assessment_text, "<user_score>", "</user_score>"),
      user_explanation |-> parse_explanation(assessment_text, "<user_explanation>",
                                             "</user_explanation>"),
      ai_score |-> parse_score(assessment_text, "<ai_score>", "</ai_score>"),
      ai_explanation |-> parse_explanation(assessment_text, "<ai_explanation>",
                                           "</ai_explanation>") ]

\* full review asked for as soon as one of the two scores is low
needs_wise_counsel_either(user_score, ai_score) == user_score < 50 \/ ai_score < 60

\* line 78
needs_wise_counsel(user_score, ai_score) == user_score < 50 /\ ai_score < 60

\* assess_simplicity_clarity, from the assessment call on: lines 70-99
assess_simplicity_clarity(reply) ==
    IF reply.kind \in { "raises", "no_text" }
    THEN [ called |-> TRUE, raised |-> FALSE, user_score |-> 0,
           user_explanation |-> << Tok("Error occurred during initial assessment") >>,
           ai_score |-> 0,
           ai_explanation |-> << Tok("Error occurred during initial assessment") >>,
           proceed_with_wise_counsel |-> FALSE ]
    ELSE LET assessment_text == IF reply.kind = "empty" THEN << >> ELSE reply.text
             parsed == _parse_assessment(assessment_text)
         IN  [ called |-> TRUE, raised |-> FALSE, user_score |-> parsed.user_score,
               user_explanation |-> parsed.user_explanation,
               ai_score |-> parsed.ai_score,
               ai_explanation |-> parsed.ai_explanation,
               proceed_with_wise_counsel |->
                   needs_wise_counsel(parsed.user_score, parsed.ai_score) ]

\* what stands between the tags of a score: digits, or something \d+ does not match
ScoreBodies ==
    { << Num(d) >> : d \in { << 0 >>, << 4, 9 >>, << 5, 0 >>, << 5, 9 >>, << 6, 0 >>,
                             << 1, 0, 0 >> } }
      \cup { << >>, << Tok("high") >>, << Tok("-"), Num(<< 5 >>) >>,
             << Tok(" "), Num(<< 6, 0 >>) >> }

ScoreTags(open, close) ==
    { << Tok(open) >> \o body \o << Tok(close) >> : body \in ScoreBodies } \cup { << >> }

AssessmentTexts ==
    { << Tok("<assessment>") >> \o user
        \o << Tok("<user_explanation>"), Tok(" "), Tok("clear"), Tok("</user_explanation>") >>
        \o ai \o << Tok("</assessment>") >> :
        user \in ScoreTags("<user_score>", "</user_score>"),
        ai \in ScoreTags("<ai_score>", "</ai_score>") }

AssessmentReplies ==
    { CriticRaises, CriticEmpty, CriticNoText } \cup { CriticText(t) : t \in AssessmentTexts }

call_assess_simplicity_clarity(reply) ==
    /\ ops < MaxOps
    /\ ops' = ops + 1
    /\ assessment_call' = reply
    /\ assessment_result' = assess_simplicity_clarity(reply)
    /\ UNCHANGED << now, files_context, split_result, exec_call, exec_result, bridge_call,
                    review_call, review_result, remove_call, update_calls, progress_vars,
                    orchestrator_vars >>

NextAssess == \E reply \in AssessmentReplies : call_assess_simplicity_clarity(reply)

SpecAssess == Init /\ [][NextAssess]_vars

\* ============================================================ progress file harness
\* Processes run the three tools that write code_change_analysis_progress.json of one
\* project folder.  A step is one file-system operation of one process, together with
\* the in-memory code that precedes it; a process is in one invocation at a time and
\* ops counts the invocations.
Statuses == { "Completed", "Failed", "In Progress" }

progress_others ==
    << files_context, now, split_result, unit_vars, remove_call, update_calls,
       orchestrator_vars >>

\* what the generate branch of review_and_update_progress makes of the dict it read
review_update(progress, status) ==
    progress_set(progress_set(progress, report_name, status), review_step_name, "Completed")

\* acquire_lock succeeds: open(lock_file, 'x') creates the lock file
acquire_lock(p, status) ==
    /\ ops < MaxOps
    /\ proc[p].op = "none"
    /\ ~lock_file
    /\ ops' = ops + 1
    /\ lock_file' = TRUE
    /\ proc' = [ proc EXCEPT ![p] = [ op |-> "review", pc |-> "read",
                                      progress |-> EmptyProgress,
                                      status |-> status, acquired |-> TRUE ] ]
    /\ UNCHANGED << progress_file, temp_file, report_file, progress_others >>

\* acquire_lock returns False: the lock file existed at every poll of the timeout;
\* the IOError raised for it passes the except clause on to the finally clause
acquire_lock_times_out(p, status) ==
    /\ ops < MaxOps
    /\ proc[p].op = "none"
    /\ lock_file
    /\ ops' = ops + 1
    /\ proc' = [ proc EXCEPT ![p] = [ op |-> "review", pc |-> "finally",
                                      progress |-> EmptyProgress,
                                      status |-> status, acquired |-> FALSE ] ]
    /\ UNCHANGED << lock_file, progress_file, temp_file, report_file, progress_others >>

\* lines 1210-1234: read the progress file ({} when it is missing) and update the dict
review_read(p) ==
    /\ proc[p].op = "review"
    /\ proc[p].pc = "read"
    /\ LET progress == IF progress_file.exists THEN progress_file.progress ELSE EmptyProgress
       IN  proc' = [ proc EXCEPT ![p].pc = "write_temp",
                                 ![p].progress = review_update(progress, proc[p].status) ]
    /\ UNCHANGED << ops, lock_file, progress_file, temp_file, report_file, progress_others >>

\* lines 1237-1239: write the dict to the .tmp file
review_write_temp(p) ==
    /\ proc[p].op = "review"
    /\ proc[p].pc = "write_temp"
    /\ temp_file' = File(proc[p].progress)
    /\ proc' = [ proc EXCEPT ![p].pc = "replace" ]
    /\ UNCHANGED << ops, lock_file, progress_file, report_file, progress_others >>

\* line 1240: os.replace(temp_file, progress_update_path); FileNotFoundError, an
\* IOError, when another process has renamed the .tmp file away
review_replace(p) ==
    /\ proc[p].op = "review"
    /\ proc[p].pc = "replace"
    /\ IF ~temp_file.exists
       THEN UNCHANGED << progress_file, temp_file >>
       ELSE progress_file' = temp_file /\ temp_file' = MISSING
    /\ proc' = [ proc EXCEPT ![p].pc = "finally" ]
    /\ UNCHANGED << ops, lock_file, report_file, progress_others >>

\* finally: release_lock removes the lock file whether or not this invocation created it
release_lock(p) ==
    /\ proc[p].op = "review"
    /\ proc[p].pc = "finally"
    /\ lock_file' = FALSE
    /\ proc' = [ proc EXCEPT ![p] = NotInvoked ]
    /\ UNCHANGED << ops, progress_file, temp_file, report_file, progress_others >>

\* code_change_analysis_planner, lines 1010-1030: load the progress file or start a new
\* dict, and mark the next step; it returns early when every step is completed
planner_read(p) ==
    /\ ops < MaxOps
    /\ proc[p].op = "none"
    /\ ops' = ops + 1
    /\ LET progress == IF progress_file.exists THEN progress_file.progress ELSE NotStarted
           next == next_step(progress)
       IN  proc' = IF next \in { NONE, "KeyError" } THEN proc
                   ELSE [ proc EXCEPT ![p] =
                            [ op |-> "planner", pc |-> "write",
                              progress |-> progress_set(progress, next, "In Progress"),
                              status |-> NONE, acquired |-> FALSE ] ]
    /\ UNCHANGED << lock_file, progress_file, temp_file, report_file, progress_others >>

\* lines 1033-1034: open(progress_update_path, 'w') and json.dump
planner_write(p) ==
    /\ proc[p].op = "planner"
    /\ proc[p].pc = "write"
    /\ progress_file' = File(proc[p].progress)
    /\ proc' = [ proc EXCEPT ![p] = NotInvoked ]
    /\ UNCHANGED << ops, lock_file, temp_file, report_file, progress_others >>

\* save_code_change_analysis_report, lines 1120-1133: write the report, load the progress
\* file (FileNotFoundError when missing, KeyError when the report has no entry) and
\* mark the report completed
save_read(p) ==
    /\ ops < MaxOps
    /\ proc[p].op = "none"
    /\ ops' = ops + 1
    /\ report_file' = TRUE
    /\ proc' = IF ~progress_file.exists \/ progress_file.progress[report_name] = ABSENT
               THEN proc
               ELSE [ proc EXCEPT ![p] =
                        [ op |-> "save", pc |-> "write",
                          progress |->
                              progress_set(progress_file.progress, report_name, "Completed"),
                          status |-> NONE, acquired |-> FALSE ] ]
    /\ UNCHANGED << lock_file, progress_file, temp_file, progress_others >>

\* lines 1135-1136: open(progress_update_path, 'w') and json.dump
save_write(p) ==
    /\ proc[p].op = "save"
    /\ proc[p].pc = "write"
    /\ progress_file' = File(proc[p].progress)
    /\ proc' = [ proc EXCEPT ![p] = NotInvoked ]
    /\ UNCHANGED << ops, lock_file, temp_file, report_file, progress_others >>

NextProgress ==
    \/ \E p \in Procs, status \in Statuses : acquire_lock(p, status)
    \/ \E p \in Procs, status \in Statuses : acquire_lock_times_out(p, status)
    \/ \E p \in Procs : review_read(p)
    \/ \E p \in Procs : review_write_temp(p)
    \/ \E p \in Procs : review_replace(p)
    \/ \E p \in Procs : release_lock(p)
    \/ \E p \in Procs : planner_read(p)
    \/ \E p \in Procs : planner_write(p)
    \/ \E p \in Procs : save_read(p)
    \/ \E p \in Procs : save_write(p)

SpecProgress == Init /\ [][NextProgress]_vars

\* ============================================================ CacheMetrics harness
\* CacheMetrics.update called with any sequence of usages and elapsed times; a usage
\* reports the cache token counts or, like an older API response, lacks them
Usages ==
    { [ input_tokens |-> 2, output_tokens |-> 1 ],
      [ input_tokens |-> 0, output_tokens |-> 0,
        cache_read_input_tokens |-> 3, cache_creation_input_tokens |-> 0 ],
      [ input_tokens |-> 1, output_tokens |-> 2,
        cache_read_input_tokens |-> 0, cache_creation_input_tokens |-> 2 ] }

call_update(usage, elapsed_time) ==
    /\ ops < MaxOps
    /\ ops' = ops + 1
    /\ cache_metrics' = CacheMetrics_update(cache_metrics, [ usage |-> usage ], elapsed_time)
    /\ update_calls' = Append(update_calls, [ usage |-> usage, elapsed_time |-> elapsed_time ])
    /\ UNCHANGED
         << files_context, now, split_result, unit_vars, remove_call, progress_vars,
            messages, temp_conversation, pc, response, attempt, approved_response,
            proceed_with_wise_counsel, is_first_pass, next_id, request, fresh, request_fresh,
            tool_log, executed, review_counters, turn_calls, turn_start, turn_files_context,
            turn_responses, turn_stamps, report, outcome, turns, calls >>

NextMetrics == \E usage \in Usages, elapsed_time \in { 0, 2 } : call_update(usage, elapsed_time)

SpecMetrics == Init /\ [][NextMetrics]_vars

\* ======================================================================= claims
PathsOf(list) == { list[i][1] : i \in 1..Len(list) }

HasBlock(msg, type, id) ==
    \E k \in 1..Len(msg.content) : msg.content[k].type = type /\ msg.content[k].id = id

\* C3: when a drafting call returns with stop reason max_tokens, the next step of
\* the turn appends exactly one assistant message, a single text block holding the
\* note wrapped around the text of the response's text blocks, and ends the turn:
\* no remote call, no review and no tool execution follows in it.
C3_TruncationCommitsPartialAndEnds ==
    [][ (pc = "response" /\ response.stop_reason = "max_tokens") =>
          /\ messages' = Append(messages,
                 [ role |-> "assistant",
                   content |-> << TextBlock(<< "TRUNCATED:", "FENCE" >>
                                            \o partial_content(response.content)
                                            \o << "FENCE", "ADVICE" >>) >> ])
          /\ pc' = "idle"
          /\ calls' = calls
          /\ review_calls' = review_calls
          /\ executed' = executed ]_vars

C3_Witness ==
    /\ pc = "idle"
    /\ outcome = "truncated"
    /\ response.stop_reason = "max_tokens"
    /\ partial_content(response.content) = << "hello" >>
    /\ messages[Len(messages)].role = "assistant"

\* C4 (as claimed): every non-error tool result handed to _handle_tool_results has
\* a user-role message in the history with a tool_result block carrying its id.
C4_EveryNonErrorResultIsAnswered ==
    \A r \in tool_log :
        ~r.is_error =>
            \E i \in 1..Len(messages) :
                messages[i].role = "user" /\ HasBlock(messages[i], "tool_result", r.id)

\* C5: every file upserted by a tool result since the previous remote call is in
\* the "new or modified" list, and not in the "existing" list, of the request
\* rendered for the next remote call.
C5_UpsertedFilesAreNewOnNextCall ==
    /\ request_fresh \subseteq PathsOf(request.system.new_modified_files)
    /\ request_fresh \cap PathsOf(request.system.existing_files) = {}

C5_Witness ==
    /\ pc = "response"
    /\ request_fresh # {}
    /\ request.system.new_modified_files # << >>

\* C6: the two lists returned by split_files_for_api_context hold every tracked
\* path exactly once between them, and nothing else.
C6_SplitIsAPartition ==
    LET both == split_result.lists.existing_files \o split_result.lists.new_modified_files
    IN  /\ PathsOf(both) = Range(split_result.of.paths)
        /\ Len(both) = Cardinality(Range(split_result.of.paths))
        /\ \A i \in 1..Len(both) : both[i][2] = split_result.of.files[both[i][1]]

C6_Witness ==
    /\ split_result.lists.existing_files # << >>
    /\ split_result.lists.new_modified_files # << >>
    /\ split_result.of.last_api_call # NoTime

\* C7 (as claimed): with no remote call recorded, every tracked file is in the
\* "new or modified" list and none is in the "existing" list.
C7_UnsetTimestampMeansAllNew ==
    split_result.of.last_api_call = NoTime =>
        /\ split_result.lists.existing_files = << >>
        /\ PathsOf(split_result.lists.new_modified_files) = Range(split_result.of.paths)

\* C8 (as claimed): in the rendered messages the annotated ones are exactly the
\* last min(2, n) user-role messages by position, n the number of user messages.
AnnotatedPositions(msgs) ==
    { i \in 1..Len(msgs) : \E k \in 1..Len(msgs[i].content) : msgs[i].content[k].cache_control }

C8_AnchorsAreTheLastTwoUserMessages ==
    AnnotatedPositions(request.messages) = Range(LastTwo(UserPositions(request.messages)))

\* C9 (as claimed): no draft holding a tool request is handed to a reviewer, and
\* once a tool request has been executed the history holds the assistant message
\* with its tool_use block followed by a user message with its tool_result block.
C9_ToolRoundTripsAreCommittedUnreviewed ==
    /\ reviewed_tool_drafts = 0
    /\ \A id \in executed :
          \E i, j \in 1..Len(messages) :
              /\ i < j
              /\ messages[i].role = "assistant" /\ HasBlock(messages[i], "tool_use", id)
              /\ messages[j].role = "user" /\ HasBlock(messages[j], "tool_result", id)

\* C10 (as claimed): a terminal text answer is committed only after the
\* pre-filter or the full reviewer has been run on it.
C10_CommittedAnswersWereReviewed ==
    outcome = "final" => prefilter_calls + review_calls > 0

\* C12: when a remote drafting call raises, that step appends exactly one
\* assistant message, a single text block with the failure text, and leaves
\* generate_response by the exception (the turn is over, outcome "error"); no
\* remote call is issued afterwards until the user starts another turn.
C12_RaisingCallEndsTheTurn ==
    [][ /\ (pc = "call" /\ pc' # "response") =>
              /\ messages' = Append(messages,
                     [ role |-> "assistant",
                       content |-> << TextBlock(<< "Failed to generate response" >>) >> ])
              /\ outcome' = "error"
              /\ pc' = "idle"
        /\ (outcome = "error" /\ turns' = turns) => calls' = calls ]_vars

C12_Witness ==
    /\ pc = "idle"
    /\ outcome = "error"
    /\ executed = {}
    /\ turn_calls = 1
    /\ turn_responses = << >>
    /\ messages[Len(messages)].role = "assistant"

\* C13: no exception leaves execute_tool; for a name it does not know, and for a
\* tool that raises, the result has is_error = true and an error message that
\* names the tool.
C13_ExecuteToolAlwaysReturnsAResult ==
    exec_call.called =>
        /\ exec_result.called
        /\ ~exec_result.raised
        /\ (exec_call.tool_name \notin ToolNames \/ exec_call.tool.raises) =>
              /\ exec_result.result.is_error
              /\ Get(exec_result.result.items, "error", << >>) # << >>
              /\ exec_call.tool_name \in Range(Get(exec_result.result.items, "error", << >>))
        /\ (exec_call.tool_name \in ToolNames /\ ~exec_call.tool.raises) =>
              exec_result.result = exec_call.tool.result

C13_Witness ==
    /\ exec_call.called
    /\ exec_call.tool_name = "review_and_update_progress"
    /\ exec_call.tool.raises
    /\ exec_result.result.is_error

\* C14: in any call of _handle_tool_results, a result with is_error = true changes
\* nothing in the Context Cache whatever keys it carries: a call whose results
\* are all errors leaves the cache (files, key order, modification times,
\* sources, sync timestamp) as it was, and in any call a path whose entry changed
\* is named by a file key of a result that is not an error.  Each error result
\* reached is folded into one user message holding a tool_result block with the
\* result's id, is_error = true and the error text.
ErrorTextOf(items) ==
    IF \E i \in 1..Len(items) : items[i][1] = "error"
    THEN (CHOOSE v \in { items[i][2] : i \in 1..Len(items) } :
              \E i \in 1..Len(items) : items[i] = << "error", v >>)
    ELSE "Unknown error occurred"

EntryChanged(fc, fc2, p) ==
    \/ (p \in Range(fc.paths)) # (p \in Range(fc2.paths))
    \/ /\ p \in Range(fc.paths) \cap Range(fc2.paths)
       /\ \/ fc.files[p] # fc2.files[p]
          \/ fc.last_modified[p] # fc2.last_modified[p]
          \/ fc.modification_source[p] # fc2.modification_source[p]

IsScenarioA ==
    /\ pc = "idle"
    /\ review_calls = 0
    /\ Len(turn_responses) = 2
    /\ turn_responses[1].stop_reason # "max_tokens"
    /\ Len(turn_responses[1].content) = 1
    /\ turn_responses[1].content[1].type = "tool_use"
    /\ ~turn_responses[1].content[1].result.is_error
    /\ \A i \in 1..Len(turn_responses[1].content[1].result.items) :
           ~ContainsFile(turn_responses[1].content[1].result.items[i][1])
    /\ turn_responses[2].stop_reason # "max_tokens"
    /\ turn_responses[2].content # << >>
    /\ \A i \in 1..Len(turn_responses[2].content) : turn_responses[2].content[i].type = "text"

C15_ScenarioA ==
    IsScenarioA =>
        /\ files_context.paths = turn_files_context.paths
        /\ files_context.files = turn_files_context.files
        /\ files_context.last_modified = turn_files_context.last_modified
        /\ files_context.modification_source = turn_files_context.modification_source
        /\ Len(messages) = turn_start + 4
        /\ LET m1 == messages[turn_start + 1]
               m2 == messages[turn_start + 2]
               m3 == messages[turn_start + 3]
               m4 == messages[turn_start + 4]
               tool_use == turn_responses[1].content[1]
           IN  /\ m1.role = "user" /\ Len(m1.content) = 1 /\ m1.content[1].type = "text"
               /\ m2.role = "assistant" /\ Len(m2.content) = 1
               /\ m2.content[1].type = "tool_use"
               /\ m2.content[1].id = tool_use.id /\ m2.content[1].name = tool_use.name
               /\ m3.role = "user" /\ Len(m3.content) = 1
               /\ m3.content[1].type = "tool_result"
               /\ m3.content[1].id = tool_use.id /\ ~m3.content[1].is_error
               /\ m4.role = "assistant"
               /\ Len(m4.content) = Len(turn_responses[2].content)
               /\ \A i \in 1..Len(m4.content) :
                      /\ m4.content[i].type = "text"
                      /\ m4.content[i].text = turn_responses[2].content[i].text

C15_Witness ==
    /\ IsScenarioA
    /\ outcome = "final"
    /\ turn_responses[1].content[1].name = "list_files"
    /\ Len(messages) = turn_start + 4

\* C17: when _handle_tool_results is given one result that is not an error and
\* that has a key named file_path, the only Context Cache entry it may change is
\* the one at the value of file_path, wherever that key stands among the other
\* keys containing "file"; without a file_path key it is the one at the value of
\* the first key containing "file".  When the content is available the entry at
\* that path is written with it.
HasKey(items, key) == \E i \in 1..Len(items) : items[i][1] = key

ValueOf(items, key) ==
    CHOOSE v \in { items[i][2] : i \in 1..Len(items) } :
        \E i \in 1..Len(items) : items[i] = << key, v >>

FileKeyPositions(items) == { i \in 1..Len(items) : ContainsFile(items[i][1]) }

ExpectedPath(items) ==
    IF HasKey(items, "file_path") THEN ValueOf(items, "file_path")
    ELSE items[CHOOSE i \in FileKeyPositions(items) :
                   \A j \in FileKeyPositions(items) : i <= j][2]

ExpectedContent(tr) ==
    IF HasKey(tr.result.items, "file_content") THEN ValueOf(tr.result.items, "file_content")
    ELSE IF tr.disk \in { "MISSING", "UNREADABLE" } THEN NONE
    ELSE tr.disk

C17_FilePathKeyTakesPrecedence ==
    [][ (/\ bridge_call'.called /\ ops' # ops
         /\ Len(bridge_call'.results) = 1
         /\ ~bridge_call'.results[1].result.is_error
         /\ FileKeyPositions(bridge_call'.results[1].result.items) # {}) =>
          LET tr == bridge_call'.results[1]
              path == RelPath(ExpectedPath(tr.result.items))
          IN  /\ \A p \in Range(files_context.paths) \cup Range(files_context'.paths) :
                    EntryChanged(files_context, files_context', p) => p = path
              /\ ExpectedContent(tr) \notin { NONE, "" } =>
                    /\ path \in Range(files_context'.paths)
                    /\ files_context'.files[path] = ExpectedContent(tr)
                    /\ files_context'.last_modified[path] = now'
                    /\ now' > now
                    /\ files_context'.modification_source[path] = tr.tool_name ]_vars

C17_Witness ==
    /\ bridge_call.called
    /\ Len(bridge_call.results) = 1
    /\ ~bridge_call.results[1].result.is_error
    /\ bridge_call.results[1].result.items[1][1] = "filePathAlt"
    /\ HasKey(bridge_call.results[1].result.items, "file_path")
    /\ files_context.paths = << "a.py" >>
    /\ files_context.last_modified["a.py"] = now

\* C18: review_response always returns, and its verdict is approved exactly when
\* the critic call returned a text whose first complete approval_status tag (tag
\* names in any case) holds, between surrounding whitespace, the single word
\* APPROVED in any case; so not when the tag is missing or unclosed, not when the
\* call failed, and whatever total score the text reports.
ApprovedWords == { "APPROVED", "approved", "Approved" }
OpenTags == { "<approval_status>", "<APPROVAL_STATUS>" }
CloseTags == { "</approval_status>", "</APPROVAL_STATUS>" }

FirstTagSaysApproved(text) ==
    \E i, j \in 1..Len(text) :
        /\ i < j
        /\ text[i].s \in OpenTags /\ text[j].s \in CloseTags
        /\ \A k \in 1..(i - 1) :
               text[k].s \in OpenTags => \A l \in (k + 1)..Len(text) : text[l].s \notin CloseTags
        /\ \A k \in (i + 1)..(j - 1) : text[k].s \notin CloseTags
        /\ \E a \in (i + 1)..(j - 1) :
               /\ text[a].s \in ApprovedWords
               /\ \A k \in ((i + 1)..(j - 1)) \ { a } : text[k].s \in { " ", "\n" }

C18_VerdictIsTheApprovalTag ==
    review_call.called =>
        /\ review_result.called
        /\ ~review_result.raised
        /\ review_result.approved =
              (review_call.kind = "text" /\ FirstTagSaysApproved(review_call.text))

C18_Witness ==
    /\ review_call.called
    /\ review_call.kind = "text"
    /\ review_result.approved
    /\ review_result.total_score = 85

\* C19: when the assessment call returns, each score is the number written in
\* digits between its tags, 0 when the text has no such tag, and the pre-filter
\* asks for the full review exactly when the user score is below 50 and the draft
\* score is below 60.
WrittenScore(text, open, close) ==
    IF \E n \in 2..(Len(text) - 1) :
           text[n - 1].s = open /\ text[n].d # << >> /\ text[n + 1].s = close
    THEN LET n == CHOOSE n \in 2..(Len(text) - 1) :
                      text[n - 1].s = open /\ text[n].d # << >> /\ text[n + 1].s = close
             d == text[n].d
         IN  IF Len(d) = 1 THEN d[1]
             ELSE IF Len(d) = 2 THEN 10 * d[1] + d[2]
             ELSE 100 * d[1] + 10 * d[2] + d[3]
    ELSE 0

C19_FullReviewBelowBothThresholds ==
    (assessment_call.called /\ assessment_call.kind \in { "text", "empty" }) =>
        LET user == WrittenScore(assessment_call.text, "<user_score>", "</user_score>")
            ai == WrittenScore(assessment_call.text, "<ai_score>", "</ai_score>")
        IN  /\ assessment_result.user_score = user
            /\ assessment_result.ai_score = ai
            /\ assessment_result.proceed_with_wise_counsel = (user < 50 /\ ai < 60)

C19_Witness ==
    /\ assessment_call.called
    /\ assessment_call.kind = "text"
    /\ assessment_result.user_score = 49
    /\ assessment_result.ai_score = 0
    /\ Tok("high") \in Range(assessment_call.text)
    /\ assessment_result.proceed_with_wise_counsel

\* C20 (as claimed): every message of the durable history has at least one
\* content block.
C20_CommittedMessagesHaveContent ==
    \A i \in 1..Len(messages) : messages[i].content # << >>

\* ----------------------------------------------------------------------- C21
\* C21: messages of the durable history are never modified or removed: every step
\* leaves the history it found as a prefix of the history it leaves, the rendering
\* of a request and the reviewer feedback acting on copies only.
C21_HistoryOnlyGrows ==
    [][ /\ Len(messages') >= Len(messages)
        /\ SubSeq(messages', 1, Len(messages)) = messages ]_vars

\* a request was rendered with cache annotations that the history does not carry,
\* and the history has grown by an answer since
C21_Witness ==
    /\ pc = "idle"
    /\ turns >= 1
    /\ Len(messages) >= 4
    /\ request # NoRequest
    /\ request.messages # SubSeq(messages, 1, Len(request.messages))
    /\ temp_conversation.messages = SubSeq(messages, 1, Len(temp_conversation.messages))

\* ----------------------------------------------------------------------- C22
\* the invocations of review_and_update_progress that are inside the read-modify-write
\* section, between acquire_lock and release_lock
InSection == { p \in Procs : proc[p].op = "review"
                             /\ proc[p].pc \in { "read", "write_temp", "replace" } }

\* C22: among concurrent invocations of review_and_update_progress on one project
\* folder, some of which may time out waiting, at most one at a time is inside the
\* read-modify-write section of the progress file.
C22_OneInvocationInTheSection == Cardinality(InSection) <= 1

\* ----------------------------------------------------------------------- C23
\* the invocations that have read the progress file and not yet written it back
ReadNotWritten ==
    { p \in Procs : \/ proc[p].op \in { "planner", "save" } /\ proc[p].pc = "write"
                    \/ proc[p].op = "review" /\ proc[p].pc \in { "write_temp", "replace" } }

\* the dict the operation of an invocation makes of a progress file
WriteOf(invocation, file) ==
    LET progress == IF file.exists THEN file.progress
                    ELSE IF invocation.op = "planner" THEN NotStarted ELSE EmptyProgress
    IN  CASE invocation.op = "review" -> review_update(progress, invocation.status)
          [] invocation.op = "save" -> progress_set(progress, report_name, "Completed")
          [] invocation.op = "planner" ->
                IF next_step(progress) \in { NONE, "KeyError" } THEN progress
                ELSE progress_set(progress, next_step(progress), "In Progress")
          [] OTHER -> progress

\* C23: every operation that writes the progress file holds the exclusive lock for the
\* whole of its read-modify-write, so no update is lost when two of them interleave:
\* whatever is written to the file is the writer's update of the content the file has
\* at that moment.
C23_WritersHoldTheLockAndLoseNoUpdate ==
    [][ /\ \A p \in ReadNotWritten : proc[p].acquired /\ lock_file
        /\ progress_file' # progress_file =>
               \E p \in Procs : /\ proc'[p] # proc[p]
                                /\ progress_file' = File(WriteOf(proc[p], progress_file)) ]_vars

\* ----------------------------------------------------------------------- C24
\* the step is a call of remove_file_from_context
RemoveStep == remove_call'.called /\ remove_call' # remove_call

\* the path has an entry in one of the three maps of the cache
InSomeMap(fc, p) ==
    p \in DOMAIN fc.files \cup DOMAIN fc.last_modified \cup DOMAIN fc.modification_source

\* the path has the same entries, or the same lack of entries, in both caches
SameEntry(fc, fc2, p) ==
    /\ (p \in DOMAIN fc.files) = (p \in DOMAIN fc2.files)
    /\ (p \in DOMAIN fc.last_modified) = (p \in DOMAIN fc2.last_modified)
    /\ (p \in DOMAIN fc.modification_source) = (p \in DOMAIN fc2.modification_source)
    /\ p \in DOMAIN fc.files \cap DOMAIN fc2.files => fc.files[p] = fc2.files[p]
    /\ p \in DOMAIN fc.last_modified \cap DOMAIN fc2.last_modified =>
           fc.last_modified[p] = fc2.last_modified[p]
    /\ p \in DOMAIN fc.modification_source \cap DOMAIN fc2.modification_source =>
           fc.modification_source[p] = fc2.modification_source[p]

\* C24: remove_file_from_context on a path that is not tracked fails with the
\* not-found error and leaves files, timestamps, sources and the last-call timestamp
\* as they were; on a tracked path it removes the path from all three maps and changes
\* nothing of any other path.
C24_RemoveForgetsOnePathOrFails ==
    [][ RemoveStep =>
          LET p == remove_call'.relative_path
          IN  IF p \in DOMAIN files_context.files
              THEN /\ remove_call'.raised = NONE
                   /\ ~InSomeMap(files_context', p)
                   /\ \A q \in Paths \ { p } : SameEntry(files_context, files_context', q)
                   /\ files_context'.last_api_call = files_context.last_api_call
              ELSE /\ remove_call'.raised = "KeyError"
                   /\ files_context' = files_context ]_vars

\* the last call removed a tracked path while another path stayed tracked
C24_Witness ==
    /\ remove_call.called
    /\ remove_call.op = ops
    /\ remove_call.raised = NONE
    /\ files_context.paths # << >>
    /\ ~InSomeMap(files_context, remove_call.relative_path)

\* ----------------------------------------------------------------------- C25
\* the value one update call contributes to a counter; a usage without the cache
\* attributes contributes 0 cache tokens
PerCall(call, counter) ==
    CASE counter = "time" -> call.elapsed_time
      [] counter \in DOMAIN call.usage -> call.usage[counter]
      [] OTHER -> 0

SumOfCalls(counter) ==
    SeqSum([ i \in 1..Len(update_calls) |-> PerCall(update_calls[i], counter) ])

LastCall(counter) ==
    IF update_calls = << >> THEN 0 ELSE PerCall(update_calls[Len(update_calls)], counter)

\* C25: after any sequence of CacheMetrics.update calls with non-negative usage, every
\* running total (requests, input, output, cache-read, cache-write, time) never
\* decreases and equals the sum of the per-call values, total_requests is the number of
\* calls, and the current values are those of the most recent call.
C25_TotalsAreSumsOfTheCalls ==
    /\ [](/\ cache_metrics.total_requests = Len(update_calls)
          /\ cache_metrics.total_input_tokens = SumOfCalls("input_tokens")
          /\ cache_metrics.total_output_tokens = SumOfCalls("output_tokens")
          /\ cache_metrics.total_cache_read_tokens = SumOfCalls("cache_read_input_tokens")
          /\ cache_metrics.total_cache_creation_tokens =
                 SumOfCalls("cache_creation_input_tokens")
          /\ cache_metrics.total_time = SumOfCalls("time")
          /\ cache_metrics.current_input_tokens = LastCall("input_tokens")
          /\ cache_metrics.current_output_tokens = LastCall("output_tokens")
          /\ cache_metrics.current_cache_read_tokens = LastCall("cache_read_input_tokens")
          /\ cache_metrics.current_cache_creation_tokens =
                 LastCall("cache_creation_input_tokens")
          /\ cache_metrics.current_time = LastCall("time"))
    /\ [][ /\ cache_metrics'.total_requests >= cache_metrics.total_requests
           /\ cache_metrics'.total_input_tokens >= cache_metrics.total_input_tokens
           /\ cache_metrics'.total_output_tokens >= cache_metrics.total_output_tokens
           /\ cache_metrics'.total_cache_read_tokens >= cache_metrics.total_cache_read_tokens
           /\ cache_metrics'.total_cache_creation_tokens >=
                  cache_metrics.total_cache_creation_tokens
           /\ cache_metrics'.total_time >= cache_metrics.total_time ]_vars

\* three calls were made, with and without the cache attributes, the last of them
\* differing from the totals
C25_Witness ==
    /\ Len(update_calls) = 3
    /\ \E i, j \in 1..3 : DOMAIN update_calls[i].usage # DOMAIN update_calls[j].usage
    /\ cache_metrics.total_cache_read_tokens > cache_metrics.current_cache_read_tokens
    /\ cache_metrics.total_time > cache_metrics.current_time
    /\ cache_metrics.current_time > 0

\* ----------------------------------------------------------------------- C26
\* C26: for every drafting call of a turn that returned a response, whatever its stop
\* reason, update_last_api_call_timestamp was invoked exactly once by the time the
\* turn renders its next request or ends.
C26_OneTimestampPerResponse ==
    pc \in { "idle", "call" } => turn_stamps = Len(turn_responses)

\* ----------------------------------------------------------------------- C27
\* the tool_use block k of message i is answered: a user message after it, before the
\* next assistant message, holds a tool_result with its id
Answered(msgs, i, k) ==
    \E j \in (i + 1)..Len(msgs) :
        /\ msgs[j].role = "user"
        /\ HasBlock(msgs[j], "tool_result", msgs[i].content[k].id)
        /\ \A h \in (i + 1)..(j - 1) : msgs[h].role # "assistant"

\* C27: whenever a request is rendered, in any turn and after any earlier turns,
\* every tool_use block of the durable history is followed by a tool_result block with
\* the same id in a user message before the next assistant message.
C27_RenderedHistoryPairsToolUses ==
    pc = "response" =>
        \A i \in 1..Len(messages) :
            \A k \in 1..Len(messages[i].content) :
                messages[i].content[k].type = "tool_use" => Answered(messages, i, k)

\* ----------------------------------------------------------------------- C28
\* C28: when every remote call returns and the model asks for tools only finitely
\* many times in a row, every user turn terminates; and the attempt counter starts
\* again at 0 after each tool round-trip, so that max_attempts bounds the drafts of one
\* review and not the tool round-trips of a turn.
C28_AnsweredTurnsTerminate ==
    /\ (pc # "idle") ~> (pc = "idle")
    /\ [][ (pc = "approved" /\ pc' = "call") => attempt' = 0 ]_vars

\* a turn ended with a final answer after more tool round-trips than max_attempts
C28_Witness ==
    /\ pc = "idle"
    /\ outcome = "final"
    /\ turn_calls > max_attempts + 1
    /\ attempt = 0

\* ----------------------------------------------------------------------- C29
\* C29: in every state the orchestrator reaches, a Context Cache that tracks a file
\* has a recorded last-remote-call timestamp: files enter the cache from tool results
\* only, and those are handled after the timestamp of their response was taken.
C29_TrackedFilesHaveATimestamp ==
    DOMAIN files_context.files # {} => files_context.last_api_call # NoTime

\* a tool result has put a file into the cache
C29_Witness ==
    /\ "a.py" \in DOMAIN files_context.files
    /\ files_context.modification_source["a.py"] = "read_file"
    /\ files_context.last_modified["a.py"] >= files_context.last_api_call
    /\ pc = "call"

\* ----------------------------------------------------------------------- C30
\* C30: whenever the usage report is generated at the end of a turn, total_requests
\* is at least 1 and none of the per-request averages divides by zero; and no report is
\* generated for a turn that ends by truncation, retry exhaustion or an error.
C30_ReportsHaveARequest ==
    /\ report.called =>
           /\ report.total_requests >= 1
           /\ ~report.raised
           /\ pc = "idle" /\ outcome \in { "final", "empty" }
    /\ (pc = "idle" /\ outcome \in { "truncated", "abandoned", "error" }) => ~report.called

\* the report of a second turn, whose averages are taken over two requests
C30_Witness ==
    /\ report.called
    /\ turns = 2
    /\ report.total_requests = 2
    /\ report.avg_input_tokens = << 4, 2 >>
    /\ report.avg_response_time = << 2, 2 >>

====
